---- MODULE Spec2Model ----
(***************************************************************************)
(* A model of qtrade's Questrade class (src/qtrade/questrade.py) and its   *)
(* token utilities (src/qtrade/utility.py): one Questrade object, the yaml *)
(* files it reads and writes, and the HTTP exchanges of each call.         *)
(*                                                                         *)
(* Python strings are sequences of symbols.  The symbols "/" and "\\" are  *)
(* the characters the code inspects; every other symbol stands for a run   *)
(* of ordinary characters.  Python's None, a key that a dict does not      *)
(* hold and an attribute that was never assigned are the marked sequences  *)
(* NoneVal, Absent and UnsetMark, which no string of the model equals.     *)
(***************************************************************************)
EXTENDS Integers, Sequences, FiniteSets, TLC

VARIABLES
    inst,             \* "none": no object yet; "live": __init__ returned; "dead": __init__ raised
    access_token,     \* self.access_token: a token dict, or Unset when never assigned
    headers,          \* self.headers["Authorization"], or NoneVal while self.headers is None
    session_headers,  \* self.session.headers["Authorization"], or Absent
    positions,        \* self.positions (NoneVal until get_account_positions succeeds)
    files,            \* the file system: path -> content of the yaml file there
    last,             \* the latest call: what it was given and what its caller observed
    refresh_failed,   \* history: a refresh_access_token call on this object has raised
    spent,            \* history: the refresh tokens this object has exchanged and
                      \* has not been issued again since
    calls             \* the number of calls made so far, where a run is bounded

vars == <<inst, access_token, headers, session_headers, positions, files, last,
          refresh_failed, spent, calls>>

---------------------------------------------------------------------------
(* Bounds of the model *)

\* calls in a run of the token life cycle that takes any answer (SpecToken)
MaxCalls == 2

---------------------------------------------------------------------------
(* Values *)

NoneVal == <<"<None>">>
Absent == <<"<absent>">>
UnsetMark == <<"<unset>">>

\* a number (a JSON or yaml integer), which is not a str
Number(n) == <<"<int>", n>>

IsStr(v) == v = <<>> \/ v[1] \notin {"<None>", "<absent>", "<unset>", "<int>"}

\* the keys of TokenDict, in the order of validate_access_token's parameters
Fields == <<"access_token", "api_server", "expires_in", "refresh_token", "token_type">>
FieldSet == {Fields[i] : i \in 1..Len(Fields)}

\* a key that is not a parameter of validate_access_token
ExtraKey == "scope"
Keys == FieldSet \cup {ExtraKey}

\* a dict: every key of Keys mapped to its value, or to Absent
KeysOf(d) == {k \in Keys : d[k] # Absent}

Unset == [k \in Keys |-> UnsetMark]

\* str(x): None prints as "None", a number as its digits, a string is itself
Str(x) == IF x = NoneVal THEN <<"None">>
          ELSE IF IsStr(x) THEN x
          ELSE Tail(x)

TOKEN_URL == <<"https://login.questrade.com/oauth2/token?grant_type=refresh_token&refresh_token=">>

---------------------------------------------------------------------------
(* utility.py *)

NotProvided ==
    [access_token  |-> "Access token was not provided.",
     api_server    |-> "API server URL was not provided.",
     expires_in    |-> "Expiry time was not provided.",
     refresh_token |-> "Refresh token was not provided.",
     token_type    |-> "Token type was not provided."]

\* the parameter is None: the dict lacks the key (default None) or holds None
IsNone(v) == v \in {Absent, NoneVal}

\* validate_access_token without its check of token_type
validate_access_token_unchecked_type(d) ==
    IF ExtraKey \in KeysOf(d) THEN "TypeError"
    ELSE IF IsNone(d["access_token"]) THEN NotProvided["access_token"]
    ELSE IF IsNone(d["api_server"]) THEN NotProvided["api_server"]
    ELSE IF IsNone(d["expires_in"]) THEN NotProvided["expires_in"]
    ELSE IF IsNone(d["refresh_token"]) THEN NotProvided["refresh_token"]
    ELSE ""

\* validate_access_token checking expires_in before the other fields
validate_access_token_expiry_first(d) ==
    IF ExtraKey \in KeysOf(d) THEN "TypeError"
    ELSE IF IsNone(d["expires_in"]) THEN NotProvided["expires_in"]
    ELSE IF IsNone(d["access_token"]) THEN NotProvided["access_token"]
    ELSE IF IsNone(d["api_server"]) THEN NotProvided["api_server"]
    ELSE IF IsNone(d["refresh_token"]) THEN NotProvided["refresh_token"]
    ELSE IF IsNone(d["token_type"]) THEN NotProvided["token_type"]
    ELSE ""

\* validate_access_token(**d): the error it raises, "" when it returns.
\* A key that is no parameter is a TypeError of the call itself; a key the
\* dict lacks leaves the parameter at its default None.
validate_access_token(d) ==
    IF ExtraKey \in KeysOf(d) THEN "TypeError"
    ELSE IF IsNone(d["access_token"]) THEN NotProvided["access_token"]
    ELSE IF IsNone(d["api_server"]) THEN NotProvided["api_server"]
    ELSE IF IsNone(d["expires_in"]) THEN NotProvided["expires_in"]
    ELSE IF IsNone(d["refresh_token"]) THEN NotProvided["refresh_token"]
    ELSE IF IsNone(d["token_type"]) THEN NotProvided["token_type"]
    ELSE ""

\* contents of a path that holds no file, of a file yaml cannot parse, and of
\* an empty file
NoFile == [k \in Keys |-> <<"<no file>">>]
Garbage == [k \in Keys |-> <<"<not yaml>">>]
EmptyFile == [k \in Keys |-> <<"<empty>">>]

\* A yaml file holding a mapping is its lines "key: scalar", one for each key:
\* a scalar is written plain (<<"plain">> \o text) or in quotes
\* (<<"quoted">> \o text); Absent stands for a key without a line.

\* texts that are numbers
Digits == {"1234", "5"}

\* yaml's implicit resolver: the type a plain scalar is read as.  An empty
\* scalar, "null" and "~" are null, digits are an int, anything else a str
\* (of yaml's implicit types the model has null and int).
Resolve(text) ==
    IF text \in {<<>>, <<"null">>, <<"~">>} THEN "null"
    ELSE IF Len(text) = 1 /\ text[1] \in Digits THEN "int"
    ELSE "str"

\* yaml.dump writing every str plain
Scalar_plain(v) ==
    IF v = NoneVal THEN <<"plain", "null">>
    ELSE IF ~IsStr(v) THEN <<"plain">> \o Tail(v)
    ELSE <<"plain">> \o v

\* the scalar yaml.dump writes for a value: None as null, a number as its
\* digits, a str plain unless a plain scalar of that text would not be read
\* as a str, and then in quotes
Scalar(v) ==
    IF v = NoneVal THEN <<"plain", "null">>
    ELSE IF ~IsStr(v) THEN <<"plain">> \o Tail(v)
    ELSE IF Resolve(v) # "str" THEN <<"quoted">> \o v
    ELSE <<"plain">> \o v

\* the value yaml.load reads from a scalar
Value(scalar) ==
    IF scalar[1] = "quoted" THEN Tail(scalar)
    ELSE IF Resolve(Tail(scalar)) = "null" THEN NoneVal
    ELSE IF Resolve(Tail(scalar)) = "int" THEN Number(scalar[2])
    ELSE Tail(scalar)

\* yaml.dump(d, yaml_file): the text written for a dict
yaml_dump(d) == [k \in Keys |-> IF d[k] = Absent THEN Absent ELSE Scalar(d[k])]

\* yaml.load(yaml_file, Loader=yaml.FullLoader) of a file that holds a mapping
yaml_load(text) == [k \in Keys |-> IF text[k] = Absent THEN Absent ELSE Value(text[k])]

\* what open and yaml.load give for the file at a path: the mapping read, or
\* the mark of why there is none
Parsed(fs, path) ==
    IF fs[path] \in {NoFile, Garbage, EmptyFile} THEN fs[path] ELSE yaml_load(fs[path])

\* get_access_token_yaml not re-raising what open or yaml.load raised: it
\* goes on to validate a payload it does not have
get_access_token_yaml_swallows(fs, token_yaml) ==
    LET content == Parsed(fs, token_yaml)
    IN  IF content \in {NoFile, Garbage, EmptyFile}
            THEN [error |-> "UnboundLocalError", payload |-> Unset]
        ELSE IF validate_access_token(content) # ""
             THEN [error |-> validate_access_token(content), payload |-> Unset]
        ELSE [error |-> "", payload |-> content]

\* get_access_token_yaml reading access_token.yml whatever path it is given
get_access_token_yaml_default(fs, token_yaml) ==
    LET content == Parsed(fs, <<"access_token.yml">>)
    IN  IF content = NoFile THEN [error |-> "FileNotFoundError", payload |-> Unset]
        ELSE IF content = Garbage THEN [error |-> "YAMLError", payload |-> Unset]
        ELSE IF content = EmptyFile THEN [error |-> "TypeError", payload |-> Unset]
        ELSE IF validate_access_token(content) # ""
             THEN [error |-> validate_access_token(content), payload |-> Unset]
        ELSE [error |-> "", payload |-> content]

\* get_access_token_yaml(token_yaml) on a file system fs: the error raised
\* ("" when none) and the payload returned.  An empty file loads as None,
\* and validate_access_token(**None) is a TypeError.
get_access_token_yaml(fs, token_yaml) ==
    LET content == Parsed(fs, token_yaml)
    IN  IF content = NoFile THEN [error |-> "FileNotFoundError", payload |-> Unset]
        ELSE IF content = Garbage THEN [error |-> "YAMLError", payload |-> Unset]
        ELSE IF content = EmptyFile THEN [error |-> "TypeError", payload |-> Unset]
        ELSE IF validate_access_token(content) # ""
             THEN [error |-> validate_access_token(content), payload |-> Unset]
        ELSE [error |-> "", payload |-> content]

---------------------------------------------------------------------------
(* requests *)

\* raise_for_status raising for a 4xx status only
raise_for_status_4xx(status) == status >= 400 /\ status < 500

\* Response.raise_for_status(): raises for a 4xx or 5xx status only
raise_for_status(status) == status >= 400 /\ status < 600

\* the body of a response that is not JSON: Response.json() raises
NotJson == [k \in Keys |-> <<"<not json>">>]

\* requests refuses a URL without a scheme (MissingSchema) before sending:
\* a URL that is empty or starts with a slash or a backslash has none
HasScheme(url) == url # <<>> /\ url[1] \notin {"/", "\\"}

\* a request as the server sees it: auth is its Authorization header
Request(method, url, auth, params) ==
    [method |-> method, url |-> url, auth |-> auth, params |-> params]

\* a JSON body of a domain endpoint: an object with one key
Json(key, val) == [key |-> key, val |-> val]
NotJsonBody == Json("<not json>", <<>>)
NoResult == Json("<nothing>", <<>>)

---------------------------------------------------------------------------
(* questrade.py: the token life cycle *)

NotBackslash(c) == c # "\\"

\* s.replace("\\", "")
StripEscapes(s) == SelectSeq(s, NotBackslash)

\* a trailing "/" left in place
StripSlash_kept(s) == s

\* s[:-1] when s[-1] == "/", else s (s is not empty)
StripSlash(s) == IF s[Len(s)] = "/" THEN SubSeq(s, 1, Len(s) - 1) ELSE s

\* token_type + " " + access_token
Authorization(d) == d["token_type"] \o <<" ">> \o d["access_token"]

\* what a call leaves behind: the object's attributes, the file system, the
\* error raised ("" when the call returned), the requests it sent, and the
\* content of the yaml file it read (Unset when it read none)
Outcome(obj, fs, error, requests) ==
    [obj |-> obj, fs |-> fs, error |-> error, requests |-> requests, loaded |-> Unset]

Having(outcome, content) == [outcome EXCEPT !.loaded = content]

\* save_token_to_yaml(yaml_path): open(yaml_path, "w") empties the file, then
\* yaml.dump writes self.access_token (an attribute never assigned raises
\* AttributeError once the file is open)
save_token_to_yaml(obj, fs, yaml_path) ==
    [fs EXCEPT ![yaml_path] = IF obj.access_token = Unset THEN EmptyFile
                              ELSE yaml_dump(obj.access_token)]

\* the installation saving the response as it was received
InstallToken_saves_response(obj, fs, response, save, yaml_path, requests) ==
    LET assigned == [obj EXCEPT !.access_token = response]
        replaced == [assigned EXCEPT !.access_token["api_server"] = StripEscapes(@)]
        cleaned  == [replaced EXCEPT !.access_token["api_server"] = StripSlash(@)]
        auth     == Authorization(cleaned.access_token)
        done     == [cleaned EXCEPT !.headers = auth, !.session_headers = auth]
    IN  IF ~IsStr(response["api_server"])
            THEN Outcome(assigned, fs, "AttributeError", requests)
        ELSE IF replaced.access_token["api_server"] = <<>>
            THEN Outcome(replaced, fs, "IndexError", requests)
        ELSE IF ~(IsStr(response["token_type"]) /\ IsStr(response["access_token"]))
            THEN Outcome(cleaned, fs, "TypeError", requests)
        ELSE Outcome(done, IF save THEN save_token_to_yaml(assigned, fs, yaml_path) ELSE fs,
                     "", requests)

\* the statements that follow validate_access_token in _get_access_token and,
\* word for word, in refresh_access_token: assign, clean api_server, set
\* the headers, update the session
InstallToken(obj, fs, response, save, yaml_path, requests) ==
    LET assigned == [obj EXCEPT !.access_token = response]
        replaced == [assigned EXCEPT !.access_token["api_server"] = StripEscapes(@)]
        cleaned  == [replaced EXCEPT !.access_token["api_server"] = StripSlash(@)]
        auth     == Authorization(cleaned.access_token)
        done     == [cleaned EXCEPT !.headers = auth, !.session_headers = auth]
    IN  IF ~IsStr(response["api_server"])
            THEN Outcome(assigned, fs, "AttributeError", requests)
        ELSE IF replaced.access_token["api_server"] = <<>>
            THEN Outcome(replaced, fs, "IndexError", requests)
        ELSE IF ~(IsStr(response["token_type"]) /\ IsStr(response["access_token"]))
            THEN Outcome(cleaned, fs, "TypeError", requests)
        ELSE Outcome(done, IF save THEN save_token_to_yaml(done, fs, yaml_path) ELSE fs,
                     "", requests)

\* the exchange sending its request again after an HTTP error status
Exchange_retries(obj, fs, token, status, body, save, yaml_path) ==
    LET request == Request("get", TOKEN_URL \o Str(token), Absent, <<>>)
    IN  IF raise_for_status(status)
            THEN Outcome(obj, fs, "HTTPError", <<request, request>>)
        ELSE IF body = NotJson THEN Outcome(obj, fs, "JSONDecodeError", <<request>>)
        ELSE IF validate_access_token(body) # ""
            THEN Outcome(obj, fs, validate_access_token(body), <<request>>)
        ELSE InstallToken(obj, fs, body, save, yaml_path, <<request>>)

\* the exchange assigning self.access_token before it validates the response
Exchange_assign_first(obj, fs, token, status, body, save, yaml_path) ==
    LET requests == <<Request("get", TOKEN_URL \o Str(token), Absent, <<>>)>>
    IN  IF raise_for_status(status) THEN Outcome(obj, fs, "HTTPError", requests)
        ELSE IF body = NotJson THEN Outcome(obj, fs, "JSONDecodeError", requests)
        ELSE IF validate_access_token(body) # ""
            THEN Outcome([obj EXCEPT !.access_token = body], fs,
                         validate_access_token(body), requests)
        ELSE InstallToken(obj, fs, body, save, yaml_path, requests)

\* requests.get(url) on the authorization endpoint, raise_for_status, json
\* and validate_access_token, then the installation
Exchange(obj, fs, token, status, body, save, yaml_path) ==
    LET requests == <<Request("get", TOKEN_URL \o Str(token), Absent, <<>>)>>
    IN  IF raise_for_status(status) THEN Outcome(obj, fs, "HTTPError", requests)
        ELSE IF body = NotJson THEN Outcome(obj, fs, "JSONDecodeError", requests)
        ELSE IF validate_access_token(body) # ""
            THEN Outcome(obj, fs, validate_access_token(body), requests)
        ELSE InstallToken(obj, fs, body, save, yaml_path, requests)

DefaultYamlPath == <<"access_token.yml">>

\* _get_access_token(save_yaml): yaml_path keeps its default
_get_access_token(obj, fs, access_code, save_yaml, status, body) ==
    Exchange(obj, fs, access_code, status, body, save_yaml, DefaultYamlPath)

\* refresh_access_token(from_yaml, yaml_path)
refresh_access_token(obj, fs, from_yaml, yaml_path, status, body) ==
    LET loaded == get_access_token_yaml(fs, DefaultYamlPath)
        old_access_token == IF from_yaml THEN loaded.payload ELSE obj.access_token
        read == IF from_yaml THEN Parsed(fs, DefaultYamlPath) ELSE Unset
    IN  IF from_yaml /\ loaded.error # ""
            THEN Having(Outcome(obj, fs, loaded.error, <<>>), read)
        ELSE IF old_access_token = Unset THEN Outcome(obj, fs, "AttributeError", <<>>)
        ELSE Having(Exchange(obj, fs, old_access_token["refresh_token"], status, body,
                             from_yaml, yaml_path), read)

\* the attributes __init__ sets before it decides how to get the token
NewObject == [access_token |-> Unset, headers |-> NoneVal, session_headers |-> Absent]

\* Questrade(access_code, token_yaml, save_yaml)
__init__(fs, access_code, token_yaml, save_yaml, status, body) ==
    LET loaded == get_access_token_yaml(fs, token_yaml)
        assigned == [NewObject EXCEPT !.access_token = loaded.payload]
        auth == Authorization(loaded.payload)
    IN  IF access_code = NoneVal /\ token_yaml # NoneVal
        THEN Having(IF loaded.error # "" THEN Outcome(NewObject, fs, loaded.error, <<>>)
                    ELSE IF ~(IsStr(loaded.payload["token_type"])
                              /\ IsStr(loaded.payload["access_token"]))
                        THEN Outcome(assigned, fs, "TypeError", <<>>)
                    ELSE Outcome([assigned EXCEPT !.headers = auth,
                                                  !.session_headers = auth],
                                 fs, "", <<>>),
                    Parsed(fs, token_yaml))
        ELSE _get_access_token(NewObject, fs, access_code, save_yaml, status, body)

---------------------------------------------------------------------------
(* questrade.py: requests to the domain endpoints *)

\* what a domain call gives its caller: the error raised ("" when it
\* returned), the requests sent and the value returned
Reply(error, requests, result) == [error |-> error, requests |-> requests, result |-> result]

\* self.access_token if it were None (no statement of the class assigns None)
NoneToken == [k \in Keys |-> NoneVal]

\* _send_message(method, endpoint, params)
_send_message(obj, method, endpoint, params, status, body) ==
    LET url == obj.access_token["api_server"] \o <<"/", "v1", "/">> \o endpoint
        requests == <<Request(method, url, obj.session_headers, params)>>
    IN  IF obj.access_token = Unset THEN Reply("AttributeError", <<>>, NoResult)
        ELSE IF obj.access_token = NoneToken
            THEN Reply("Access token not set...", <<>>, NoResult)
        ELSE IF ~IsStr(obj.access_token["api_server"]) THEN Reply("TypeError", <<>>, NoResult)
        ELSE IF ~HasScheme(url) THEN Reply("MissingSchema", <<>>, NoResult)
        ELSE IF raise_for_status(status) THEN Reply("HTTPError", requests, NoResult)
        ELSE IF body = NotJsonBody THEN Reply("JSONDecodeError", requests, NoResult)
        ELSE Reply("", requests, body)

\* response[key] inside try/except: any failure is re-raised as a bare Exception
Extract(reply, key) ==
    IF reply.error # "" THEN reply
    ELSE IF reply.result.key # key THEN Reply("Exception", reply.requests, NoResult)
    ELSE Reply("", reply.requests, Json(key, reply.result.val))

\* get_account_positions(account_id), up to the assignment of self.positions
get_account_positions(obj, account_id, status, body) ==
    Extract(_send_message(obj, "get", <<"accounts/", account_id, "/positions">>, <<>>,
                          status, body),
            "positions")

\* get_account_activities(account_id, start_date, end_date)
get_account_activities(obj, account_id, start_date, end_date, status, body) ==
    LET payload == <<"startTime", start_date, "T00:00:00-05:00",
                     "endTime", end_date, "T00:00:00-05:00">>
    IN  Extract(_send_message(obj, "get", <<"accounts/", account_id, "/activities">>,
                              payload, status, body),
                "activities")

\* the tickers argument: a str, or a list of str
OneTicker(name) == [kind |-> "str", val |-> <<name>>]
TickerList(names) == [kind |-> "list", val |-> names]

\* [tickers] if isinstance(tickers, str), else tickers
AsList(tickers) == tickers.val

\* ",".join(strings)
RECURSIVE Join(_)
Join(strings) ==
    IF strings = <<>> THEN <<>>
    ELSE IF Len(strings) = 1 THEN strings[1]
    ELSE strings[1] \o <<",">> \o Join(Tail(strings))

\* what ticker_information and get_quote return: one record, or a list
One(record) == [kind |-> "dict", val |-> record]
Many(records) == [kind |-> "list", val |-> records]

\* the last statements of both: records[0] for a single request, which
\* raises IndexError on an empty list, else the list
Pick(reply, single) ==
    IF reply.error # "" THEN reply
    ELSE IF ~single THEN Reply("", reply.requests, Many(reply.result.val))
    ELSE IF reply.result.val = <<>> THEN Reply("IndexError", reply.requests, NoResult)
    ELSE Reply("", reply.requests, One(reply.result.val[1]))

\* ticker_information returning the list whatever the number of tickers
ticker_information_list(obj, tickers, status, body) ==
    Pick(Extract(_send_message(obj, "get", <<"symbols">>,
                               <<"names">> \o Join(AsList(tickers)), status, body),
                 "symbols"),
         FALSE)

\* ticker_information(tickers)
ticker_information(obj, tickers, status, body) ==
    Pick(Extract(_send_message(obj, "get", <<"symbols">>,
                               <<"names">> \o Join(AsList(tickers)), status, body),
                 "symbols"),
         Len(AsList(tickers)) = 1)

\* get_quote(tickers): the symbols lookup, then the quotes of its symbolIds
get_quote(obj, tickers, status, body, quotes_status, quotes_body) ==
    LET info == ticker_information(obj, TickerList(AsList(tickers)), status, body)
        ids == IF Len(AsList(tickers)) = 1 /\ info.result.kind = "dict"
               THEN <<info.result.val.symbolId>>
               ELSE [i \in 1..Len(info.result.val) |-> info.result.val[i].symbolId]
        payload == <<"ids">> \o Join([i \in 1..Len(ids) |-> Str(ids[i])])
        quotes == Extract(_send_message(obj, "get", <<"markets/quotes">>, payload,
                                        quotes_status, quotes_body),
                          "quotes")
    IN  IF info.error # "" THEN info
        ELSE Pick([quotes EXCEPT !.requests = info.requests \o @], Len(ids) = 1)

\* a request that carries a JSON payload (the json= argument)
WithJson(request, json) ==
    [method |-> request.method, url |-> request.url, auth |-> request.auth,
     params |-> request.params, json |-> json]

\* submit_order(acct_id, order_dict): self.session.post(uri, json=order_dict)
\* and its raise_for_status, then _send_message("post", ..., json=order_dict),
\* whose response is returned
submit_order(obj, acct_id, order_dict, status, body, second_status, second_body) ==
    LET endpoint == <<"accounts/", acct_id, "/orders">>
        uri == obj.access_token["api_server"] \o <<"/", "v1", "/">> \o endpoint
        posted == <<WithJson(Request("post", uri, obj.session_headers, <<>>), order_dict)>>
        response == _send_message(obj, "post", endpoint, <<>>, second_status, second_body)
    IN  IF obj.access_token = Unset THEN Reply("AttributeError", <<>>, NoResult)
        ELSE IF ~IsStr(obj.access_token["api_server"]) THEN Reply("TypeError", <<>>, NoResult)
        ELSE IF ~HasScheme(uri) THEN Reply("MissingSchema", <<>>, NoResult)
        ELSE IF raise_for_status(status) THEN Reply("HTTPError", posted, NoResult)
        ELSE [response EXCEPT
                !.requests = posted \o [i \in 1..Len(@) |-> WithJson(@[i], order_dict)]]

---------------------------------------------------------------------------
(* The inputs of the calls and the answers of the servers *)

Tok(access, api, expires, refresh, type) ==
    [k \in Keys |->
        CASE k = "access_token"  -> access
          [] k = "api_server"    -> api
          [] k = "expires_in"    -> expires
          [] k = "refresh_token" -> refresh
          [] k = "token_type"    -> type
          [] OTHER               -> Absent]

Without(d, gone) == [k \in Keys |-> IF k \in gone THEN Absent ELSE d[k]]

\* the k-th credential the authorization server issues, for an api_server
Issued(k, api) ==
    Tok(<<IF k = 1 THEN "t1" ELSE "t2">>, api, Number("1234"),
        <<IF k = 1 THEN "r1" ELSE "r2">>, <<"Bearer">>)

\* api_server strings the authorization server sends: empty, plain, with a
\* trailing slash, with an escaped trailing slash, with two trailing slashes,
\* a lone slash, a lone backslash
ApiServers ==
    {<<>>, <<"a">>, <<"a", "/">>, <<"a", "\\", "/">>, <<"a", "/", "/">>, <<"/">>, <<"\\">>}

Base == Issued(2, <<"a", "/">>)

\* sets of at most two fields, and all of them
FieldChoices == {gone \in SUBSET FieldSet : gone # {} /\ Cardinality(gone) <= 2} \cup {FieldSet}

\* JSON bodies of the authorization endpoint: the issued credentials, and Base
\* with fields missing, null, empty or numeric, or with an unknown key
TokenBodies ==
    {Issued(1, <<"a">>)}
    \cup {Issued(2, api) : api \in ApiServers}
    \cup {Without(Base, gone) : gone \in FieldChoices}
    \cup {[Base EXCEPT ![f] = NoneVal] : f \in {"access_token", "token_type"}}
    \cup {[Without(Base, gone) EXCEPT ![ExtraKey] = <<"x">>] : gone \in {{}, {"expires_in"}}}
    \cup {[Base EXCEPT !["access_token"] = <<>>]}
    \cup {[Base EXCEPT ![f] = Number("5")] : f \in {"api_server", "token_type"}}

\* an answer of a server: its status and its body
Response(status, body) == [status |-> status, body |-> body]

\* answers of the authorization endpoint
TokenResponses ==
    {Response(200, body) : body \in TokenBodies \cup {NotJson}}
    \cup {Response(304, Issued(1, <<"a">>)), Response(404, NotJson), Response(500, NotJson)}

\* the few answers that suffice where the domain calls are the subject
FewTokenResponses ==
    {Response(200, body) :
        body \in {Issued(1, <<"a">>), Issued(2, <<"a", "/">>), Issued(2, <<"\\">>),
                  [Base EXCEPT !["token_type"] = Number("5")],
                  Without(Base, {"token_type"})}}
    \cup {Response(404, NotJson)}

\* answers that issue credentials whose strings read like a number, like null
\* or are empty, for the calls that write and read the yaml files
StoreResponses ==
    {Response(200, body) :
        body \in {Issued(1, <<"a">>),
                  Tok(<<"1234">>, <<"a", "/">>, Number("1234"), <<"null">>, <<"Bearer">>),
                  Tok(<<>>, <<"~">>, Number("5"), <<"r2">>, <<"5">>)}}

Paths == {DefaultYamlPath, <<"other.yml">>}

Stored == Issued(1, <<"a">>)

\* what the yaml files hold before the program first runs
InitialFiles ==
    {[p \in Paths |-> IF p = DefaultYamlPath THEN first ELSE NoFile] :
        first \in {NoFile, Garbage, yaml_dump(Stored),
                   yaml_dump([Stored EXCEPT !["api_server"] = <<"a", "/">>]),
                   yaml_dump(Without(Stored, {"refresh_token", "token_type"}))}}
    \cup {[p \in Paths |-> IF p = DefaultYamlPath THEN NoFile ELSE yaml_dump(Stored)]}

\* refresh_access_token(...) calls (yaml_path is not read without from_yaml)
RefreshCalls ==
    {[from_yaml |-> FALSE, yaml_path |-> DefaultYamlPath]}
    \cup {[from_yaml |-> TRUE, yaml_path |-> p] : p \in Paths}

\* answers of the domain endpoints
DomainResponses ==
    {Response(200, body) :
        body \in {NotJsonBody, Json("positions", <<"p1">>), Json("activities", <<"x1">>),
                  Json("message", <<>>)}}
    \cup {Response(304, Json("positions", <<"p1">>)), Response(304, NotJsonBody),
          Response(404, NotJsonBody), Response(500, Json("message", <<>>))}

\* records of the symbols and of the quotes endpoint
Symbol(name, id) == [symbol |-> name, symbolId |-> Number(id)]
Quote(name, id) == [symbol |-> name, symbolId |-> Number(id), high52w |-> "25.00"]

\* answers of the symbols endpoint: no, one or two records, a body without
\* the key, and an error status
SymbolsResponses ==
    {Response(200, Json("symbols", records)) :
        records \in {<<>>, <<Symbol(<<"XYZ">>, "5")>>,
                     <<Symbol(<<"XYZ">>, "5"), Symbol(<<"ABC">>, "1234")>>}}
    \cup {Response(200, Json("message", <<>>)), Response(404, NotJsonBody)}

\* answers of the quotes endpoint
QuotesResponses ==
    {Response(200, Json("quotes", records)) :
        records \in {<<>>, <<Quote(<<"XYZ">>, "5")>>,
                     <<Quote(<<"XYZ">>, "5"), Quote(<<"ABC">>, "1234")>>}}
    \cup {Response(200, Json("message", <<>>)), Response(500, NotJsonBody)}

\* tickers arguments: a str, and lists of no, one and two tickers
TickerArgs ==
    {OneTicker(<<"XYZ">>), TickerList(<<>>), TickerList(<<<<"XYZ">>>>),
     TickerList(<<<<"XYZ">>, <<"ABC">>>>)}

\* answers of the orders endpoint
OrderResponses ==
    {Response(200, body) :
        body \in {NotJsonBody, Json("orders", <<"o1">>), Json("orders", <<"o2">>)}}
    \cup {Response(404, NotJsonBody), Response(500, Json("message", <<>>))}

\* order_dict arguments
Orders == {<<"Buy", "1">>, <<"Sell", "2">>}

AccountIds == {"123"}
Methods == {"get", "post"}
Endpoints == {<<"accounts">>}
Dates == {"2018-08-07"}

---------------------------------------------------------------------------
(* The state machine *)

Object == [access_token |-> access_token, headers |-> headers,
           session_headers |-> session_headers]

\* the answer to a call that sent no request
NoResponse == [status |-> 0, body |-> NotJson]

\* a call as its caller saw it: the error raised ("" when it returned), the
\* requests it sent, the value a domain call returned; and what the call was
\* given: the answer to its request, the yaml content it read, and its
\* arguments (set by With)
Observed(op, error, requests, result, received, loaded) ==
    [op |-> op, error |-> error, requests |-> requests, result |-> result,
     status |-> received.status, body |-> received.body, loaded |-> loaded,
     code |-> Absent, path |-> Absent, save |-> FALSE,
     tickers |-> TickerList(<<>>), answers |-> <<>>,
     account |-> "", order |-> Absent]

\* the arguments of a call of the token life cycle: access_code, the path
\* (token_yaml or yaml_path) and the flag that asks for the yaml file to be
\* written (save_yaml or from_yaml)
With(call, code, path, save) == [call EXCEPT !.code = code, !.path = path, !.save = save]

Init ==
    /\ inst = "none"
    /\ access_token = Unset
    /\ headers = NoneVal
    /\ session_headers = Absent
    /\ positions = UnsetMark
    /\ files \in InitialFiles
    /\ last = Observed("none", "", <<>>, NoResult, NoResponse, Unset)
    /\ refresh_failed = FALSE
    /\ spent = {}
    /\ calls = 0

\* the access code or refresh token a call sent to the authorization endpoint:
\* what follows TOKEN_URL in the url of its request
SentToken(requests) ==
    SubSeq(requests[1].url, Len(TOKEN_URL) + 1, Len(requests[1].url))

\* q = Questrade(access_code, token_yaml, save_yaml): a new object replaces the old
Construct(access_code, token_yaml, save_yaml, status, body) ==
    \E out \in {__init__(files, access_code, token_yaml, save_yaml, status, body)} :
        /\ inst' = IF out.error = "" THEN "live" ELSE "dead"
        /\ access_token' = out.obj.access_token
        /\ headers' = out.obj.headers
        /\ session_headers' = out.obj.session_headers
        /\ positions' = IF out.error = "" THEN NoneVal ELSE UnsetMark
        /\ files' = out.fs
        /\ last' = With(Observed("__init__", out.error, out.requests, NoResult,
                                 IF out.requests = <<>> THEN NoResponse
                                 ELSE Response(status, body),
                                 out.loaded),
                        access_code, token_yaml, save_yaml)
        /\ refresh_failed' = FALSE
        /\ spent' = {}

\* q.refresh_access_token(from_yaml, yaml_path)
Refresh(from_yaml, yaml_path, status, body) ==
    /\ inst # "none"
    /\ \E out \in {refresh_access_token(Object, files, from_yaml, yaml_path, status, body)} :
        /\ access_token' = out.obj.access_token
        /\ headers' = out.obj.headers
        /\ session_headers' = out.obj.session_headers
        /\ files' = out.fs
        /\ last' = With(Observed("refresh_access_token", out.error, out.requests,
                                 NoResult,
                                 IF out.requests = <<>> THEN NoResponse
                                 ELSE Response(status, body),
                                 out.loaded),
                        Absent, yaml_path, from_yaml)
        /\ refresh_failed' = (refresh_failed \/ out.error # "")
        /\ spent' = IF out.error = "" /\ out.requests # <<>>
                    THEN (spent \cup {SentToken(out.requests)})
                            \ {Str(out.obj.access_token["refresh_token"])}
                    ELSE spent
    /\ UNCHANGED <<inst, positions>>

\* q.save_token_to_yaml(yaml_path)
SaveToken(yaml_path) ==
    /\ inst # "none"
    /\ files' = save_token_to_yaml(Object, files, yaml_path)
    /\ last' = With(Observed("save_token_to_yaml",
                             IF access_token = Unset THEN "AttributeError" ELSE "",
                             <<>>, NoResult, NoResponse, Unset),
                    Absent, yaml_path, TRUE)
    /\ UNCHANGED <<inst, access_token, headers, session_headers, positions,
                   refresh_failed, spent>>

\* the tickers a market-data call was asked for and the answers the servers
\* had for its requests
Asked(call, tickers, answers) == [call EXCEPT !.tickers = tickers, !.answers = answers]

\* what a domain call was answered
Answer(reply, status) == IF reply.requests = <<>> THEN 0 ELSE status

\* q._send_message(method, endpoint)
SendMessage(method, endpoint, status, body) ==
    /\ inst # "none"
    /\ \E reply \in {_send_message(Object, method, endpoint, <<>>, status, body)} :
        last' = Observed("_send_message", reply.error, reply.requests, reply.result,
                         [status |-> Answer(reply, status), body |-> NotJson], Unset)
    /\ UNCHANGED <<inst, access_token, headers, session_headers, positions, files,
                   refresh_failed, spent>>

\* q.get_account_positions(account_id)
GetAccountPositions(account_id, status, body) ==
    /\ inst # "none"
    /\ \E reply \in {get_account_positions(Object, account_id, status, body)} :
        /\ positions' = IF reply.error = "" THEN reply.result.val ELSE positions
        /\ last' = Observed("get_account_positions", reply.error, reply.requests,
                            reply.result,
                            [status |-> Answer(reply, status), body |-> NotJson], Unset)
    /\ UNCHANGED <<inst, access_token, headers, session_headers, files, refresh_failed,
                   spent>>

\* q.get_account_activities(account_id, start_date, end_date)
GetAccountActivities(account_id, start_date, end_date, status, body) ==
    /\ inst # "none"
    /\ \E reply \in {get_account_activities(Object, account_id, start_date, end_date,
                                            status, body)} :
        last' = Observed("get_account_activities", reply.error, reply.requests,
                         reply.result,
                         [status |-> Answer(reply, status), body |-> NotJson], Unset)
    /\ UNCHANGED <<inst, access_token, headers, session_headers, positions, files,
                   refresh_failed, spent>>

\* q.ticker_information(tickers)
TickerInformation(tickers, status, body) ==
    /\ inst # "none"
    /\ \E reply \in {ticker_information(Object, tickers, status, body)} :
        last' = Asked(Observed("ticker_information", reply.error, reply.requests,
                               reply.result,
                               [status |-> Answer(reply, status), body |-> NotJson], Unset),
                      tickers, <<Response(status, body)>>)
    /\ UNCHANGED <<inst, access_token, headers, session_headers, positions, files,
                   refresh_failed, spent>>

\* q.get_quote(tickers)
GetQuote(tickers, status, body, quotes_status, quotes_body) ==
    /\ inst # "none"
    /\ \E reply \in {get_quote(Object, tickers, status, body, quotes_status, quotes_body)} :
        last' = Asked(Observed("get_quote", reply.error, reply.requests, reply.result,
                               [status |-> Answer(reply, status), body |-> NotJson], Unset),
                      tickers,
                      <<Response(status, body), Response(quotes_status, quotes_body)>>)
    /\ UNCHANGED <<inst, access_token, headers, session_headers, positions, files,
                   refresh_failed, spent>>

\* the account and the order a submit_order call was given
Ordered(call, acct_id, order_dict) == [call EXCEPT !.account = acct_id, !.order = order_dict]

\* q.submit_order(acct_id, order_dict)
SubmitOrder(acct_id, order_dict, status, body, second_status, second_body) ==
    /\ inst # "none"
    /\ \E reply \in {submit_order(Object, acct_id, order_dict, status, body,
                                   second_status, second_body)} :
        last' = Ordered(Asked(Observed("submit_order", reply.error, reply.requests,
                                       reply.result,
                                       [status |-> Answer(reply, status), body |-> NotJson],
                                       Unset),
                              TickerList(<<>>),
                              <<Response(status, body),
                                Response(second_status, second_body)>>),
                        acct_id, order_dict)
    /\ UNCHANGED <<inst, access_token, headers, session_headers, positions, files,
                   refresh_failed, spent>>

\* Questrade(...) calls: from a yaml file (no request is sent), or with an
\* access code or neither argument (token_yaml is then not read)
YamlConstructorCalls == {[access_code |-> NoneVal, token_yaml |-> p] : p \in Paths}
CodeConstructorCalls ==
    {[access_code |-> NoneVal, token_yaml |-> NoneVal]}
    \cup {[access_code |-> <<"c1">>, token_yaml |-> y] : y \in {NoneVal, DefaultYamlPath}}

\* a call in a run of any length, and a call in a run of at most MaxCalls calls
Uncounted == UNCHANGED calls
Counted == calls < MaxCalls /\ calls' = calls + 1

ConstructFromYaml(count) ==
    /\ count
    /\ \E call \in YamlConstructorCalls :
        Construct(call.access_code, call.token_yaml, TRUE, 200, NotJson)

ConstructFromCode(responses, count) ==
    /\ count
    /\ \E call \in CodeConstructorCalls, save_yaml \in BOOLEAN, r \in responses :
        Construct(call.access_code, call.token_yaml, save_yaml, r.status, r.body)

RefreshToken(responses, count) ==
    /\ count
    /\ \E call \in RefreshCalls, r \in responses :
        Refresh(call.from_yaml, call.yaml_path, r.status, r.body)

Dispatch ==
    \E method \in Methods, endpoint \in Endpoints, r \in DomainResponses :
        SendMessage(method, endpoint, r.status, r.body) /\ Uncounted

Positions ==
    \E account_id \in AccountIds, r \in DomainResponses :
        GetAccountPositions(account_id, r.status, r.body) /\ Uncounted

Activities ==
    \E account_id \in AccountIds, start_date \in Dates, end_date \in Dates,
       r \in DomainResponses :
        GetAccountActivities(account_id, start_date, end_date, r.status, r.body)
        /\ Uncounted

Tickers ==
    \E tickers \in TickerArgs, r \in SymbolsResponses :
        TickerInformation(tickers, r.status, r.body) /\ Uncounted

Quotes ==
    \E tickers \in TickerArgs, r \in SymbolsResponses, q \in QuotesResponses :
        GetQuote(tickers, r.status, r.body, q.status, q.body) /\ Uncounted

Save == \E yaml_path \in Paths : SaveToken(yaml_path) /\ Uncounted

SubmitOrders ==
    \E acct_id \in AccountIds, order_dict \in Orders, r \in OrderResponses,
       second \in OrderResponses :
        SubmitOrder(acct_id, order_dict, r.status, r.body, second.status, second.body)
        /\ Uncounted

\* every call, any number of times, the authorization endpoint giving one of a
\* few answers
Next ==
    \/ ConstructFromYaml(Uncounted)
    \/ ConstructFromCode(FewTokenResponses, Uncounted)
    \/ RefreshToken(FewTokenResponses, Uncounted)
    \/ Dispatch
    \/ Positions
    \/ Activities

Spec == Init /\ [][Next]_vars

\* at most MaxCalls calls of the token life cycle, the authorization endpoint
\* giving any answer
NextToken ==
    \/ ConstructFromYaml(Counted)
    \/ ConstructFromCode(TokenResponses, Counted)
    \/ RefreshToken(TokenResponses, Counted)

SpecToken == Init /\ [][NextToken]_vars

\* the calls that write and read the yaml files, any number of times
NextStore ==
    \/ ConstructFromYaml(Uncounted)
    \/ ConstructFromCode(StoreResponses, Uncounted)
    \/ RefreshToken(StoreResponses, Uncounted)
    \/ Save

SpecStore == Init /\ [][NextStore]_vars

\* the market-data calls on an object constructed from a yaml file
NextMarket ==
    \/ ConstructFromYaml(Uncounted)
    \/ Tickers
    \/ Quotes

SpecMarket == Init /\ [][NextMarket]_vars

\* the order submissions on an object constructed from a yaml file
NextOrder ==
    \/ ConstructFromYaml(Uncounted)
    \/ SubmitOrders

SpecOrder == Init /\ [][NextOrder]_vars

---------------------------------------------------------------------------
(* The claims *)

TokenOps == {"__init__", "refresh_access_token"}
DomainOps == {"_send_message", "get_account_positions", "get_account_activities"}

\* C1: on an object whose construction returned, the stored Authorization
\* header is token_type + " " + access_token of the current credential, also
\* after a refresh_access_token call that raised.
C1_HeaderMatchesCredential ==
    inst = "live" =>
        headers = access_token["token_type"] \o <<" ">> \o access_token["access_token"]

\* a string without a backslash that does not end with "/"
Canonical(s) ==
    /\ \A i \in 1..Len(s) : s[i] # "\\"
    /\ s = <<>> \/ s[Len(s)] # "/"

\* C2: the api_server of the current credential is canonical, however the
\* credential was created and whatever string the response or record held.
C2_ApiServerCanonical ==
    (inst = "live" /\ IsStr(access_token["api_server"])) =>
        Canonical(access_token["api_server"])

\* C3 as claimed: the credential of an object whose construction returned has
\* exactly the five fields, each present and non-empty.
C3_FiveFieldsNonEmpty ==
    inst = "live" =>
        /\ KeysOf(access_token) = FieldSet
        /\ \A f \in FieldSet : access_token[f] \notin {NoneVal, <<>>}

\* C3 as amended: a credential that is installed has exactly the five fields,
\* each present and not None; an empty string is accepted.
C3_FiveFieldsNotNone ==
    access_token # Unset =>
        /\ KeysOf(access_token) = FieldSet
        /\ \A f \in FieldSet : access_token[f] # NoneVal

\* C3 witness: a refresh returned and installed a credential whose
\* access_token is the empty string.
C3_Witness ==
    /\ inst = "live"
    /\ last.op = "refresh_access_token"
    /\ last.error = ""
    /\ access_token["access_token"] = <<>>
    /\ headers = <<"Bearer", " ">>

\* a token record: a parsed JSON body or the parsed content of a yaml file
IsRecord(d) == d \notin {Unset, NoFile, Garbage, EmptyFile, NotJson}

\* the required fields a record lacks (absent, or null)
Lacking(d) == {f \in FieldSet : d[f] \in {Absent, NoneVal}}

\* the first of them in the order access_token, api_server, expires_in,
\* refresh_token, token_type
FirstLacking(d) ==
    Fields[CHOOSE i \in 1..Len(Fields) :
              /\ Fields[i] \in Lacking(d)
              /\ \A j \in 1..(i - 1) : Fields[j] \notin Lacking(d)]

\* the record a token call validated and found wanting: the yaml content it
\* read, or else the body of the 2xx answer it received
Validated ==
    IF IsRecord(last.loaded) /\ Lacking(last.loaded) # {} THEN last.loaded
    ELSE IF last.status \in 200..299 /\ IsRecord(last.body) /\ Lacking(last.body) # {}
        THEN last.body
    ELSE Unset

\* C4 as claimed: a construction or refresh whose token record (response body
\* or loaded yaml record) lacks required fields fails with the error naming
\* the first missing field.
C4_NamesFirstMissing ==
    (last.op \in TokenOps /\ Validated # Unset) =>
        last.error = NotProvided[FirstLacking(Validated)]

\* C4 as amended: the same, for a record that has no key besides the five.
C4_NamesFirstMissingOfKnownKeys ==
    (last.op \in TokenOps /\ Validated # Unset /\ KeysOf(Validated) \subseteq FieldSet) =>
        last.error = NotProvided[FirstLacking(Validated)]

\* C4 witness: a refresh received a 2xx body without refresh_token and
\* token_type and raised "Refresh token was not provided."
C4_Witness ==
    /\ last.op = "refresh_access_token"
    /\ last.status = 200
    /\ Lacking(last.body) = {"refresh_token", "token_type"}
    /\ last.error = "Refresh token was not provided."

\* s with every backslash removed and then one trailing "/" removed
Cleaned(s) ==
    LET t == SelectSeq(s, LAMBDA c : c # "\\")
    IN  IF t # <<>> /\ t[Len(t)] = "/" THEN SubSeq(t, 1, Len(t) - 1) ELSE t

\* C5: a construction or refresh that received a 2xx answer with the five
\* fields and returned has installed the answer's access_token, expires_in,
\* refresh_token and token_type, its api_server without escape characters and
\* without a trailing slash, and headers made of the new token_type and
\* access_token.
C5_InstallsResponse ==
    (last.op \in TokenOps /\ last.status \in 200..299 /\ last.error = "") =>
        /\ \A f \in FieldSet \ {"api_server"} : access_token[f] = last.body[f]
        /\ access_token["api_server"] = Cleaned(last.body["api_server"])
        /\ headers = last.body["token_type"] \o <<" ">> \o last.body["access_token"]
        /\ session_headers = headers

\* C5 witness: a refresh installed the credential t2, whose api_server came
\* with an escaped trailing slash, and the headers carry t2.
C5_Witness ==
    /\ last.op = "refresh_access_token"
    /\ last.error = ""
    /\ last.body["api_server"] = <<"a", "\\", "/">>
    /\ access_token["api_server"] = <<"a">>
    /\ headers = <<"Bearer", " ", "t2">>

\* C6: a refresh_access_token call that raises, on an object whose
\* construction returned, leaves the credential, the headers, the session's
\* Authorization header and the yaml files as they were.
C6_FailedRefreshChangesNothing ==
    [][(inst = "live" /\ last'.op = "refresh_access_token" /\ last'.error # "")
          => UNCHANGED <<access_token, headers, session_headers, files>>]_vars

\* C7 as claimed: once a refresh on an object has failed, no later call on
\* that object succeeds.
C7_FailedIsTerminal ==
    (inst = "live" /\ refresh_failed) => last.error # ""

\* the call was given nothing refresh_access_token installs: no answer, an
\* answer with a 4xx or 5xx status, a body that is not JSON, or a body that
\* lacks a required field or has an unknown key
Rejected(call) ==
    \/ call.requests = <<>>
    \/ call.status \in 400..599
    \/ ~IsRecord(call.body)
    \/ Lacking(call.body) # {}
    \/ ~(KeysOf(call.body) \subseteq FieldSet)

\* C7 as amended: no failed state is kept.  A refresh that fails on a yaml
\* load error, an HTTP error status, a body that is not JSON or a validation
\* error leaves the object and the files as they were, so later calls on the
\* object succeed as they would have before; and nothing is retried: a
\* construction or a refresh sends at most one request.
C7_FailedRefreshKeepsObject ==
    [][/\ (last'.op = "refresh_access_token" /\ Rejected(last'))
           => /\ last'.error # ""
              /\ UNCHANGED <<inst, access_token, headers, session_headers, positions, files>>
       /\ (last'.op \in TokenOps) => Len(last'.requests) <= 1]_vars

\* C7 witness: after a refresh on the object failed, _send_message returned
\* a body.
C7_Witness ==
    /\ inst = "live"
    /\ refresh_failed
    /\ last.op = "_send_message"
    /\ last.error = ""
    /\ Len(last.requests) = 1

\* C8: on an object on which no credential was ever installed, a domain call
\* raises the not-authenticated error "Access token not set..." and sends no
\* request.
C8_NotAuthenticated ==
    (last.op \in DomainOps /\ access_token = Unset) =>
        (last.error = "Access token not set..." /\ last.requests = <<>>)

\* C9: a request a domain call sends, on an object whose construction
\* returned, goes to <api_server>/v1/<endpoint> of the current credential and
\* carries the Authorization header made of that credential's token_type and
\* access_token.
C9_RequestUsesCurrentCredential ==
    (inst = "live" /\ last.op \in DomainOps /\ last.requests # <<>>) =>
        LET request == last.requests[1]
            base == access_token["api_server"] \o <<"/", "v1", "/">>
        IN  /\ Len(request.url) > Len(base)
            /\ SubSeq(request.url, 1, Len(base)) = base
            /\ request.auth
                  = access_token["token_type"] \o <<" ">> \o access_token["access_token"]

\* C10 as claimed: a domain call answered with a status outside 2xx raises and
\* gives its caller no body.
C10_RaisesOnNon2xx ==
    (inst = "live" /\ last.op \in DomainOps /\ last.requests # <<>> /\ last.status \notin 200..299) =>
        (last.error # "" /\ last.result = NoResult)

\* C10 as amended: a domain call answered with a 4xx or 5xx status raises the
\* HTTP error and gives its caller no body.
C10_RaisesOn4xx5xx ==
    (last.op \in DomainOps /\ last.requests # <<>> /\ last.status \in 400..599) =>
        (last.error = "HTTPError" /\ last.result = NoResult)

\* C10 witness: get_account_positions was answered 500 and raised.
C10_Witness ==
    /\ inst = "live"
    /\ last.op = "get_account_positions"
    /\ last.status = 500
    /\ last.error = "HTTPError"
    /\ last.result = NoResult
    /\ positions = NoneVal

\* the latest call was Questrade(token_yaml=path), without an access code
FromYaml == last.op = "__init__" /\ last.code = NoneVal /\ last.path # NoneVal

C12_SaveThenLoad ==
    [][/\ (inst = "live" /\ last'.op = "save_token_to_yaml") =>
             /\ last'.error = ""
             /\ get_access_token_yaml(files', last'.path)
                   = [error |-> "", payload |-> access_token]
             /\ \A p \in Paths \ {last'.path} : files'[p] = files[p]
       /\ (/\ inst = "live" /\ last.op = "save_token_to_yaml"
           /\ last'.op = "__init__" /\ last'.code = NoneVal /\ last'.path = last.path) =>
             /\ last'.error = ""
             /\ access_token' = access_token]_vars

\* C12 witness: Questrade(token_yaml=path) loaded a credential written by the
\* program whose access_token is the string "1234" and whose refresh_token
\* is the string "null".
C12_Witness ==
    /\ FromYaml
    /\ last.error = ""
    /\ access_token["access_token"] = <<"1234">>
    /\ access_token["expires_in"] = Number("1234")
    /\ access_token["refresh_token"] = <<"null">>

\* the normalization of api_server as the code applies it: replace, then the
\* test of the last character, which raises IndexError on an empty string
Normalize(s) ==
    IF StripEscapes(s) = <<>> THEN <<"<IndexError>">> ELSE StripSlash(StripEscapes(s))

\* C13: normalization is idempotent: the api_server a construction or refresh
\* installed, which has been normalized once, is what normalizing it again
\* gives.
C13_NormalizationIdempotent ==
    (inst = "live" /\ last.op \in TokenOps /\ last.error = "" /\ last.requests # <<>>) =>
        /\ access_token["api_server"] = Normalize(last.body["api_server"])
        /\ Normalize(access_token["api_server"]) = access_token["api_server"]

\* the file a construction or a refresh is to write: access_token.yml for a
\* construction, yaml_path for a refresh
Destination(call) == IF call.op = "__init__" THEN DefaultYamlPath ELSE call.path

\* C14: a construction from an access code with save_yaml=True, or a refresh
\* with from_yaml=True, that returns leaves at its destination the record of
\* the current, normalized credential and touches no other file; every other
\* construction or refresh (from_yaml=False, save_yaml=False, from a yaml
\* file, or one that raises) writes no file.
C14_PersistsOnSuccess ==
    [][(last'.op \in TokenOps) =>
          IF last'.save /\ last'.error = "" /\ last'.requests # <<>>
          THEN /\ Parsed(files', Destination(last')) = access_token'
               /\ \A p \in Paths \ {Destination(last')} : files'[p] = files[p]
          ELSE files' = files]_vars

\* C14 witness: refresh_access_token(from_yaml=True, yaml_path="other.yml")
\* returned, the answer's api_server had an escaped trailing slash, and
\* other.yml holds the credential with api_server "a".
C14_Witness ==
    /\ last.op = "refresh_access_token"
    /\ last.save
    /\ last.path = <<"other.yml">>
    /\ last.error = ""
    /\ last.body["api_server"] = <<"a", "\\", "/">>
    /\ access_token["api_server"] = <<"a">>
    /\ Parsed(files, <<"other.yml">>) = access_token

\* the error of open or of yaml.load for a file that holds no mapping
LoadError(content) ==
    IF content = NoFile THEN "FileNotFoundError"
    ELSE IF content = Garbage THEN "YAMLError"
    ELSE "TypeError"

MarketRequest(endpoint, params) ==
    Request("get", access_token["api_server"] \o <<"/", "v1", "/">> \o endpoint,
            session_headers, params)

\* the tickers requested, joined by commas in the order of the request
Names(tickers) ==
    LET RECURSIVE Joined(_)
        Joined(i) ==
            IF i > Len(tickers.val) THEN <<>>
            ELSE (IF i > 1 THEN <<",">> ELSE <<>>) \o tickers.val[i] \o Joined(i + 1)
    IN  Joined(1)

\* C16: ticker_information sends one GET to the symbols endpoint whose names
\* parameter is the requested tickers joined by commas in the order of the
\* request; when it returns, it returns one record, the first of the
\* response, exactly when one ticker was requested (as a str or as a list of
\* one), and else the list of records of the response.
C16_TickerInformation ==
    (inst = "live" /\ last.op = "ticker_information") =>
        /\ last.requests \in {<<>>, <<MarketRequest(<<"symbols">>,
                                                     <<"names">> \o Names(last.tickers))>>}
        /\ last.error = "" =>
              /\ Len(last.requests) = 1
              /\ last.result.kind = "dict" <=> Len(last.tickers.val) = 1
              /\ last.result.kind = "dict" =>
                    last.result.val = last.answers[1].body.val[1]
              /\ last.result.kind # "dict" =>
                    last.result = Many(last.answers[1].body.val)

\* C16 witness: ticker_information(["XYZ", "ABC"]) returned the two records of
\* the response.
C16_Witness ==
    /\ inst = "live"
    /\ last.op = "ticker_information"
    /\ last.error = ""
    /\ last.tickers = TickerList(<<<<"XYZ">>, <<"ABC">>>>)
    /\ last.requests[1].params = <<"names", "XYZ", ",", "ABC">>
    /\ last.result.kind = "list"
    /\ Len(last.result.val) = 2

\* the symbolIds of the lookup result of a get_quote call: of the first
\* record of the symbols response when one ticker was requested, else of all
LookupIds(call) ==
    LET records == call.answers[1].body.val
    IN  IF Len(call.tickers.val) = 1 THEN <<Str(records[1].symbolId)>>
        ELSE [i \in 1..Len(records) |-> Str(records[i].symbolId)]

\* C17: a get_quote call for one or more tickers that returns, whatever the
\* symbols response was, returns one quote record exactly when one ticker
\* was requested and a list when two or more were; it sent the symbols
\* lookup and then one quotes request whose ids parameter is the symbolIds
\* of the lookup result joined by commas.
C17_GetQuote ==
    (/\ inst = "live" /\ last.op = "get_quote" /\ last.error = ""
     /\ Len(last.tickers.val) >= 1) =>
        /\ last.result.kind = "dict" <=> Len(last.tickers.val) = 1
        /\ last.requests
             = <<MarketRequest(<<"symbols">>, <<"names">> \o Names(last.tickers)),
                 MarketRequest(<<"markets/quotes">>, <<"ids">> \o Join(LookupIds(last)))>>

\* C18 as claimed: every construction from an access code and every refresh
\* on an object whose construction returned sends exactly one request.
C18_ExactlyOneRequest ==
    /\ (last.op = "__init__" /\ ~FromYaml) => Len(last.requests) = 1
    /\ (inst = "live" /\ last.op = "refresh_access_token"
        /\ last.path = DefaultYamlPath) => Len(last.requests) = 1

\* a record get_access_token_yaml returns: the five fields and no other key
Loadable(d) == IsRecord(d) /\ Lacking(d) = {} /\ KeysOf(d) \subseteq FieldSet

\* C18 as amended: a construction without token_yaml or with an access code
\* sends exactly one GET to the token URL followed by str(access_code); a
\* refresh sends exactly one GET to the token URL followed by the old refresh
\* token (of the record in access_token.yml with from_yaml, else of the
\* current credential), unless it has no old token (the yaml load failed, or
\* no credential was ever assigned), and then it sends none; no call sends
\* more than one, and a call whose request is answered with a 4xx or 5xx
\* status, a body that is not JSON or a body lacking a field raises.
C18_OneRequestNoRetry ==
    [][(last'.op \in TokenOps) =>
          LET old == IF last'.save THEN last'.loaded ELSE access_token
              hasnone == IF last'.op = "__init__" THEN FromYaml'
                         ELSE IF last'.save THEN ~Loadable(last'.loaded)
                         ELSE access_token = Unset
              token == IF last'.op = "__init__" THEN last'.code ELSE old["refresh_token"]
          IN  /\ hasnone => last'.requests = <<>>
              /\ ~hasnone => last'.requests
                               = <<Request("get", TOKEN_URL \o Str(token), Absent, <<>>)>>
              /\ (/\ last'.requests # <<>>
                  /\ \/ last'.status \in 400..599
                     \/ ~IsRecord(last'.body)
                     \/ Lacking(last'.body) # {}) => last'.error # ""]_vars

\* C18 witness: a refresh was answered 500; it raised HTTPError having sent
\* one GET with the refresh token r1.
C18_Witness ==
    /\ inst = "live"
    /\ last.op = "refresh_access_token"
    /\ last.status = 500
    /\ last.error = "HTTPError"
    /\ last.requests
         = <<Request("get", TOKEN_URL \o <<"r1">>, Absent, <<>>)>>

\* C19: a refresh on an object whose construction returned never sends a
\* refresh token that an earlier refresh of this object has exchanged
\* (stated for runs in which access_token.yml is the only yaml file, so every
\* save went to the file from_yaml reads).
C19_RefreshTokenUsedOnce ==
    [][(/\ inst = "live"
        /\ \A p \in Paths \ {DefaultYamlPath} : files[p] = NoFile
        /\ last'.op = "refresh_access_token"
        /\ last'.requests # <<>>) => SentToken(last'.requests) \notin spent]_vars

\* C20: a successful refresh_access_token(from_yaml=True, yaml_path=P) has
\* read its old token from the file P that it overwrites.
C20_ReadsThePathItWrites ==
    [][(/\ inst = "live"
        /\ last'.op = "refresh_access_token"
        /\ last'.save
        /\ last'.error = "") => last'.loaded = Parsed(files, last'.path)]_vars

\* C21: a submit_order call on an object whose construction returned sends
\* at most one request, and when it returns it has sent exactly one POST with
\* the order to <api_server>/v1/accounts/<acct_id>/orders and returns the
\* response to that POST.
C21_SubmitOrderPostsOnce ==
    (inst = "live" /\ last.op = "submit_order") =>
        /\ Len(last.requests) <= 1
        /\ last.error = "" =>
            /\ last.requests
                 = <<WithJson(Request("post",
                                      access_token["api_server"] \o <<"/", "v1", "/">>
                                          \o <<"accounts/", last.account, "/orders">>,
                                      session_headers, <<>>),
                              last.order)>>
            /\ last.result = last.answers[1].body

====
